---- MODULE Spec2Model ----
(***************************************************************************)
(* Model of python_version/src/visa_bot.py: main() and VisaBot.run() with  *)
(* the four remote operations login, check_available_date,                 *)
(* check_available_time and book_appointment.                              *)
(*                                                                         *)
(* Python values are modelled as tagged records: None, an unbound local,   *)
(* and str (a sequence of code points, so that the string order used by    *)
(* run() is computed character by character).                              *)
(***************************************************************************)
EXTENDS Integers, Sequences, FiniteSets, TLC

(***************************************************************************)
(* Bounds of the model.                                                    *)
(***************************************************************************)
\* Number of nested run() frames the interpreter allows before the call at
\* line 155 raises RecursionError (CPython's default limit is 1000; the
\* model uses a small one).
RecursionLimit == 3
\* Longest JSON array in a modelled response.
MaxLen == 2

(***************************************************************************)
(* Python values.                                                          *)
(***************************************************************************)
None == [tag |-> "None"]
Unbound == [tag |-> "Unbound"]
Str(s) == [tag |-> "str", s |-> s]

\* Code point of a decimal digit; "-" is 45 and ":" is 58.
Digit(d) == 48 + d

\* The "YYYY-MM-DD" text of a date, zero padded.
IsoDate(y, m, d) ==
    << Digit(y \div 1000), Digit((y \div 100) % 10), Digit((y \div 10) % 10),
       Digit(y % 10), 45, Digit(m \div 10), Digit(m % 10), 45,
       Digit(d \div 10), Digit(d % 10) >>

\* The "HH:MM" text of a time.
HourMin(h, m) ==
    << Digit(h \div 10), Digit(h % 10), 58, Digit(m \div 10), Digit(m % 10) >>

EmptyStr == << >>

\* Date strings the remote service and the command line can supply.
DateStrings ==
    { IsoDate(2023, 12, 31), IsoDate(2024, 5, 15), IsoDate(2024, 6, 1),
      IsoDate(2024, 7, 1), EmptyStr }

\* Time strings the remote service can supply.
TimeStrings == { HourMin(9, 0), HourMin(10, 30), EmptyStr }

\* Python truthiness (`not date` line 138, `if time` line 146, `or` line 93):
\* None and the empty string are falsy.
Truthy(v) == v.tag = "str" /\ Len(v.s) > 0

\* Python's str order: lexicographic by code point, a proper prefix is
\* smaller.  StrGT(a, b) is `a > b` (line 140).
RECURSIVE StrGT(_, _)
StrGT(a, b) ==
    IF Len(a) = 0 THEN FALSE
    ELSE IF Len(b) = 0 THEN TRUE
    ELSE IF Head(a) # Head(b) THEN Head(a) > Head(b)
    ELSE StrGT(Tail(a), Tail(b))

\* Sequences over S of length at most n.
SeqUpTo(S, n) == UNION { [1..k -> S] : k \in 0..n }

(***************************************************************************)
(* Outcome of a call: a returned value or a raised exception.              *)
(***************************************************************************)
Return(v) == [raised |-> FALSE, value |-> v]
RaiseWith(kind, msg) == [raised |-> TRUE, exc |-> kind, msg |-> msg]
Raise(kind) == RaiseWith(kind, EmptyStr)

(***************************************************************************)
(* check_available_date (lines 66-77).  The decoded body is either an      *)
(* object with an error field or an array of objects with a date field.    *)
(***************************************************************************)
DateObjects == { [date |-> Str(s)] : s \in DateStrings }
\* Texts of the error field.
ErrorMessages == { << 101 >>, << 101, 50 >> }
DateBodies ==
    { [error |-> TRUE, items |-> << >>, message |-> m] : m \in ErrorMessages }
    \cup { [error |-> FALSE, items |-> l, message |-> EmptyStr] :
               l \in SeqUpTo(DateObjects, MaxLen) }

\* A variant of line 77 that takes the last element of the array.
LastAvailableDateResult(data) ==
    IF data.error THEN RaiseWith("Exception", data.message)
    ELSE IF Len(data.items) > 0 THEN Return(data.items[Len(data.items)].date)
    ELSE Return(None)

\* Lines 74-77.
CheckAvailableDateResult(data) ==
    IF data.error THEN RaiseWith("Exception", data.message)
    ELSE IF Len(data.items) > 0 THEN Return(data.items[1].date)
    ELSE Return(None)

\* What check_available_date can return or raise, over the modelled bodies.
DateOutcomes == { CheckAvailableDateResult(data) : data \in DateBodies }

(***************************************************************************)
(* check_available_time (lines 79-94).  The decoded body is an object; a   *)
(* key is absent or holds a list of time strings.                          *)
(***************************************************************************)
Absent == [present |-> FALSE, items |-> << >>]
Present(l) == [present |-> TRUE, items |-> l]
TimeLists == { Absent } \cup { Present(l) : l \in SeqUpTo({ Str(s) : s \in TimeStrings }, MaxLen) }
TimeBodies ==
    { [error |-> TRUE, business_times |-> Absent, available_times |-> Absent] }
    \cup [error : { FALSE }, business_times : TimeLists, available_times : TimeLists]

\* data.get(key, [None]) with the default of lines 93-94.
DictGet(field) == IF field.present THEN field.items ELSE << None >>

\* A variant of lines 93-94 with the two lists in the other order.
PreferAvailableTimes(data) ==
    IF data.error THEN Raise("Exception")
    ELSE LET a == DictGet(data.available_times)
             b == DictGet(data.business_times)
         IN  IF Len(a) = 0 THEN Raise("IndexError")
             ELSE IF Truthy(a[1]) THEN Return(a[1])
             ELSE IF Len(b) = 0 THEN Raise("IndexError")
             ELSE Return(b[1])

\* Lines 90-94: `x[0] or y[0]`; indexing an empty list raises IndexError and
\* the right operand is evaluated only when the left one is falsy.
CheckAvailableTimeResult(data) ==
    IF data.error THEN Raise("Exception")
    ELSE LET b == DictGet(data.business_times)
             a == DictGet(data.available_times)
         IN  IF Len(b) = 0 THEN Raise("IndexError")
             ELSE IF Truthy(b[1]) THEN Return(b[1])
             ELSE IF Len(a) = 0 THEN Raise("IndexError")
             ELSE Return(a[1])

\* What check_available_time can return or raise, over the modelled bodies.
TimeOutcomes == { CheckAvailableTimeResult(data) : data \in TimeBodies }

(***************************************************************************)
(* The csrf-token lookup of login and book_appointment (lines 47-48 and    *)
(* 102-103): soup.find(...) is None when the tag is missing, and a tag     *)
(* without the attribute raises KeyError.                                  *)
(***************************************************************************)
Token == << 116 >>
HtmlPages ==
    { [meta |-> "absent", content |-> EmptyStr],
      [meta |-> "nocontent", content |-> EmptyStr],
      [meta |-> "ok", content |-> Token],
      [meta |-> "ok", content |-> EmptyStr] }

\* A variant of lines 48 and 103 that reads the attribute with a default.
CsrfTokenOrEmpty(html) ==
    IF html.meta = "ok" THEN Return(Str(html.content)) ELSE Return(Str(EmptyStr))

CsrfToken(html) ==
    IF html.meta = "absent" THEN Raise("TypeError")
    ELSE IF html.meta = "nocontent" THEN Raise("KeyError")
    ELSE Return(Str(html.content))

(***************************************************************************)
(* Decisions of run() (lines 124-155).                                     *)
(***************************************************************************)
\* Variants of the comparison of line 140.
IsLaterInverted(d, booked) == StrGT(booked.s, d.s)
IsLaterOrEqual(d, booked) == d.s = booked.s \/ StrGT(d.s, booked.s)

\* Line 140: `date > current_booked_date`.
IsLater(d, booked) == StrGT(d.s, booked.s)

\* Lines 138-142: which of the three branches a polled date takes.
Branch(d, booked) ==
    IF ~Truthy(d) THEN "none"
    ELSE IF IsLater(d, booked) THEN "later"
    ELSE "take"

\* A variant of line 146 that books whatever the time check returned.
BookAlways(t) == TRUE

\* Line 146: `if time:`.
BookGuard(t) == Truthy(t)

\* A variant of line 155 that restarts from the date given on the command line.
RestartFromArgument(booked, first) == first

\* Line 155: the date passed to the recursive call.
RestartDate(booked, first) == booked

\* Line 150: `time` is a local name of run() (it is assigned at line 144), so
\* `time.sleep` reads the local, never the module: an unbound local raises
\* UnboundLocalError, and None and str have no attribute `sleep`.
SleepResult(t) ==
    IF t = Unbound THEN Raise("UnboundLocalError") ELSE Raise("AttributeError")

(***************************************************************************)
(* State.                                                                  *)
(***************************************************************************)
VARIABLES
    pc,                   \* position of the process
    argv,                 \* sys.argv
    current_booked_date,  \* parameter of the innermost run() frame
    date,                 \* local `date` of the innermost run() frame
    time,                 \* local `time` of the innermost run() frame
    depth,                \* number of nested run() frames
    exc,                  \* kind of the exception being handled, or "none"
    excAt,                \* operation that raised the last exception
    lastOp,               \* the last remote operation called
    iterBaseline,         \* current_booked_date when the iteration polled
    iterDate,             \* what check_available_date returned this iteration
    iterTimeArg,          \* argument of check_available_time this iteration
    iterTimeRet,          \* what check_available_time returned this iteration
    iterBookArgs,         \* arguments of book_appointment this iteration
    lastBooking,          \* form fields of the last booking POST sent
    prevBooking,          \* lastBooking as it was before the last booking call
    posts,                \* urls of the POST requests sent
    gets,                 \* urls of the GET requests sent
    slept,                \* whether time.sleep has ever completed
    exitCode,             \* exit status once the process has ended
    fnInput,              \* argument of a function applied on its own
    fnOutput,             \* its outcome
    data,                 \* local `data` of check_available_date (line 72)
    excMsg,               \* message of the exception being handled
    page,                 \* page fetched by the last remote operation
    opPost,               \* POST sent by the last remote operation
    usagePrinted,         \* whether main() printed the usage line
    sleptSinceLogin       \* whether time.sleep completed since the last login

vars ==
    << pc, argv, current_booked_date, date, time, depth, exc, excMsg, excAt, lastOp,
       iterBaseline, iterDate, iterTimeArg, iterTimeRet, iterBookArgs,
       lastBooking, prevBooking, posts, gets, slept, exitCode, fnInput,
       fnOutput, data, excMsg, page, opPost, usagePrinted, sleptSinceLogin >>

locals == << date, time >>
iter == << iterBaseline, iterDate, iterTimeArg, iterTimeRet, iterBookArgs >>
bookings == << lastBooking, prevBooking >>
fn == << fnInput, fnOutput >>
http == << page, opPost >>

ProgName == << 118 >>
ArgvChoices == { << ProgName >> \o a : a \in SeqUpTo(DateStrings, 2) }

Init ==
    /\ pc = "main"
    /\ argv \in ArgvChoices
    /\ current_booked_date = Unbound
    /\ date = Unbound
    /\ time = Unbound
    /\ depth = 0
    /\ exc = "none"
    /\ excAt = "none"
    /\ lastOp = "none"
    /\ iterBaseline = None
    /\ iterDate = Unbound
    /\ iterTimeArg = None
    /\ iterTimeRet = Unbound
    /\ iterBookArgs = None
    /\ lastBooking = None
    /\ prevBooking = None
    /\ posts = {}
    /\ gets = {}
    /\ slept = FALSE
    /\ exitCode = -1
    /\ fnInput = None
    /\ fnOutput = None
    /\ data = None
    /\ excMsg = EmptyStr
    /\ page = None
    /\ opPost = None
    /\ usagePrinted = FALSE
    /\ sleptSinceLogin = FALSE

\* An exception raised by operation op inside the try block (lines 132-152).
CaughtWith(kind, msg, op) ==
    /\ pc' = "except"
    /\ exc' = kind
    /\ excMsg' = msg
    /\ excAt' = op

Caught(kind, op) == CaughtWith(kind, EmptyStr, op)

\* A variant of line 160 that only asks for a date to be present.
TooFewArguments(args) == Len(args) < 2

\* Line 160: `len(sys.argv) != 2`.
WrongArity(args) == Len(args) # 2

\* main(), lines 157-166.
Main ==
    /\ pc = "main"
    /\ IF WrongArity(argv)
       THEN /\ pc' = "exited"
            /\ usagePrinted' = TRUE
            /\ exitCode' = 1
            /\ UNCHANGED << current_booked_date, depth >>
       ELSE /\ pc' = "run"
            /\ current_booked_date' = Str(argv[2])
            /\ depth' = 1
            /\ UNCHANGED << exitCode, usagePrinted >>
    /\ UNCHANGED << argv, locals, exc, excMsg, excAt, lastOp, iter, bookings, posts,
                    gets, slept, fn,
                    data, page, opPost, sleptSinceLogin >>

\* A variant of line 126 that rejects None only.
InvalidDateIfNone(d) == d = None

\* Line 126: `not current_booked_date`.
InvalidDate(d) == ~Truthy(d)

\* run(), lines 126-130: the guard on the date.  A return from the outermost
\* frame ends main() and the process.
RunEntry ==
    /\ pc = "run"
    /\ IF InvalidDate(current_booked_date)
       THEN /\ pc' = "returned"
            /\ exitCode' = 0
       ELSE /\ pc' = "login"
            /\ UNCHANGED exitCode
    /\ UNCHANGED << argv, current_booked_date, locals, depth, exc, excMsg, excAt,
                    lastOp, iter, bookings, posts, gets, slept, fn,
                    data, page, opPost, usagePrinted, sleptSinceLogin >>

\* Failures of a request that are not decided by the body: the transport
\* fails, or (for the JSON endpoints) the body does not decode.
TransportErrors == { "ConnectionError" }
JsonErrors == { "ConnectionError", "JSONDecodeError" }

\* What the server answers to a POST that the transport delivered.
PostResponses == { "accepted", "rejected" }

\* A variant of lines 60-64 and 118-122 that raises on a rejected form.
PostChecked(resp) ==
    IF resp = "rejected" THEN Raise("HTTPError") ELSE Return(None)

\* Lines 60-64 and 118-122: the value of session.post(...) is discarded.
PostOutcome(resp) == Return(None)

\* login(), lines 41-64: GET the sign-in page, read the token, POST the form.
\* The response to the POST is not read.
Login ==
    /\ pc = "login"
    /\ lastOp' = "login"
    /\ gets' = gets \cup { "sign_in" }
    /\ sleptSinceLogin' = FALSE
    /\ \/ /\ \E k \in TransportErrors : Caught(k, "login")
          /\ page' = None
          /\ opPost' = None
          /\ UNCHANGED posts
       \/ \E html \in HtmlPages :
            LET tok == CsrfToken(html) IN
            /\ page' = html
            /\ IF tok.raised
               THEN /\ Caught(tok.exc, "login")
                    /\ opPost' = None
                    /\ UNCHANGED posts
               ELSE /\ posts' = posts \cup { "sign_in" }
                    /\ \/ /\ \E k \in TransportErrors : Caught(k, "login")
                          /\ opPost' = [token |-> tok.value, response |-> "none"]
                       \/ \E resp \in PostResponses :
                            LET o == PostOutcome(resp) IN
                            /\ opPost' = [token |-> tok.value, response |-> resp]
                            /\ IF o.raised
                               THEN Caught(o.exc, "login")
                               ELSE /\ pc' = "poll"
                                    /\ UNCHANGED << exc, excMsg, excAt >>
    /\ UNCHANGED << argv, current_booked_date, locals, depth, iter,
                    bookings, slept, exitCode, fn, data, usagePrinted >>

\* Line 136, the call: check_available_date() sends the request and decodes
\* the body (lines 68-72).
CheckDate ==
    /\ pc = "poll"
    /\ lastOp' = "check_available_date"
    /\ gets' = gets \cup { "days" }
    /\ page' = None
    /\ opPost' = None
    /\ iterBaseline' = current_booked_date
    /\ iterDate' = Unbound
    /\ iterTimeArg' = None
    /\ iterTimeRet' = Unbound
    /\ iterBookArgs' = None
    /\ \/ /\ \E k \in JsonErrors : Caught(k, "check_available_date")
          /\ UNCHANGED data
       \/ /\ data' \in DateBodies
          /\ pc' = "poll_data"
          /\ UNCHANGED << exc, excMsg, excAt >>
    /\ UNCHANGED << argv, current_booked_date, locals, depth, bookings,
                    posts, slept, exitCode, fn,
                    usagePrinted, sleptSinceLogin >>

\* Lines 74-77 and the assignment of line 136: the body decides what
\* check_available_date returns or raises.
CheckDateReturn ==
    /\ pc = "poll_data"
    /\ data' = None
    /\ LET r == CheckAvailableDateResult(data) IN
       IF r.raised
       THEN /\ CaughtWith(r.exc, r.msg, "check_available_date")
            /\ UNCHANGED << date, iterDate >>
       ELSE /\ date' = r.value
            /\ iterDate' = r.value
            /\ pc' = "compare"
            /\ UNCHANGED << exc, excMsg, excAt >>
    /\ UNCHANGED << argv, current_booked_date, time, depth, lastOp,
                    iterBaseline, iterTimeArg, iterTimeRet, iterBookArgs,
                    bookings, posts, gets, slept, exitCode, fn, http,
                    usagePrinted, sleptSinceLogin >>

\* Lines 138-143: the three branches on the polled date.
Compare ==
    /\ pc = "compare"
    /\ IF Branch(date, current_booked_date) = "take"
       THEN /\ current_booked_date' = date
            /\ pc' = "checktime"
       ELSE /\ pc' = "sleep"
            /\ UNCHANGED current_booked_date
    /\ UNCHANGED << argv, locals, depth, exc, excMsg, excAt, lastOp, iter,
                    bookings, posts, gets, slept, exitCode, fn,
                    data, page, opPost, usagePrinted, sleptSinceLogin >>

\* Lines 144-146: check_available_time(date) of lines 79-94 and the test of
\* its result.
CheckTime ==
    /\ pc = "checktime"
    /\ page' = None
    /\ opPost' = None
    /\ lastOp' = "check_available_time"
    /\ gets' = gets \cup { "times" }
    /\ iterTimeArg' = date
    /\ \/ /\ \E k \in JsonErrors : Caught(k, "check_available_time")
          /\ UNCHANGED << time, iterTimeRet >>
       \/ \E r \in TimeOutcomes :
            IF r.raised
            THEN /\ Caught(r.exc, "check_available_time")
                 /\ UNCHANGED << time, iterTimeRet >>
            ELSE /\ time' = r.value
                 /\ iterTimeRet' = r.value
                 /\ pc' = IF BookGuard(r.value) THEN "book" ELSE "sleep"
                 /\ UNCHANGED << exc, excMsg, excAt >>
    /\ UNCHANGED << argv, current_booked_date, date, depth, iterBaseline,
                    iterDate, iterBookArgs, bookings, posts, slept, exitCode,
                    fn,
                    data, usagePrinted, sleptSinceLogin >>

\* Lines 147-148: book_appointment(date, time) of lines 96-122: GET the
\* appointment page, read the token, POST the form.  The response to the POST
\* is not read.
Book ==
    /\ pc = "book"
    /\ lastOp' = "book_appointment"
    /\ gets' = gets \cup { "appointment" }
    /\ iterBookArgs' = [date |-> date, time |-> time]
    /\ prevBooking' = lastBooking
    /\ \/ /\ \E k \in TransportErrors : Caught(k, "book_appointment")
          /\ page' = None
          /\ opPost' = None
          /\ UNCHANGED << posts, lastBooking >>
       \/ \E html \in HtmlPages :
            LET tok == CsrfToken(html) IN
            /\ page' = html
            /\ IF tok.raised
               THEN /\ Caught(tok.exc, "book_appointment")
                    /\ opPost' = None
                    /\ UNCHANGED << posts, lastBooking >>
               ELSE /\ posts' = posts \cup { "appointment" }
                    /\ lastBooking' = [date |-> date, time |-> time]
                    /\ \/ /\ \E k \in TransportErrors : Caught(k, "book_appointment")
                          /\ opPost' = [token |-> tok.value, response |-> "none"]
                       \/ \E resp \in PostResponses :
                            LET o == PostOutcome(resp) IN
                            /\ opPost' = [token |-> tok.value, response |-> resp]
                            /\ IF o.raised
                               THEN Caught(o.exc, "book_appointment")
                               ELSE /\ pc' = "sleep"
                                    /\ UNCHANGED << exc, excMsg, excAt >>
    /\ UNCHANGED << argv, current_booked_date, locals, depth, iterBaseline,
                    iterDate, iterTimeArg, iterTimeRet, slept, exitCode, fn,
                    data, usagePrinted, sleptSinceLogin >>

\* Line 150: time.sleep(self.refresh_delay), then the next iteration.
Sleep ==
    /\ pc = "sleep"
    /\ LET r == SleepResult(time) IN
       IF r.raised
       THEN /\ Caught(r.exc, "sleep")
            /\ UNCHANGED << slept, sleptSinceLogin >>
       ELSE /\ pc' = "poll"
            /\ slept' = TRUE
            /\ sleptSinceLogin' = TRUE
            /\ UNCHANGED << exc, excMsg, excAt >>
    /\ UNCHANGED << argv, current_booked_date, locals, depth, lastOp, iter,
                    bookings, posts, gets, exitCode, fn,
                    data, page, opPost, usagePrinted >>

\* Lines 152-155: the handler logs and calls run() again, one frame deeper.
\* When the interpreter's recursion limit is reached the call raises
\* RecursionError inside the handler; every enclosing frame is itself in its
\* handler (line 155), so nothing catches it and the process ends.
Except ==
    /\ pc = "except"
    /\ IF depth >= RecursionLimit
       THEN /\ pc' = "crashed"
            /\ exitCode' = 1
            /\ UNCHANGED << current_booked_date, locals, depth, exc, excMsg >>
       ELSE /\ pc' = "run"
            /\ depth' = depth + 1
            /\ current_booked_date' = RestartDate(current_booked_date, Str(argv[2]))
            /\ date' = Unbound
            /\ time' = Unbound
            /\ exc' = "none"
            /\ excMsg' = EmptyStr
            /\ UNCHANGED exitCode
    /\ UNCHANGED << argv, excAt, lastOp, iter, bookings, posts, gets, slept,
                    fn,
                    data, page, opPost, usagePrinted, sleptSinceLogin >>

Next ==
    \/ Main
    \/ RunEntry
    \/ Login
    \/ CheckDate
    \/ CheckDateReturn
    \/ Compare
    \/ CheckTime
    \/ Book
    \/ Sleep
    \/ Except

Spec == Init /\ [][Next]_vars

TypeOK ==
    /\ pc \in { "main", "run", "login", "poll", "poll_data", "compare", "checktime", "book",
                "sleep", "except", "exited", "returned", "crashed" }
    /\ depth \in 0..RecursionLimit
    /\ date \in { Unbound, None } \cup { Str(s) : s \in DateStrings }
    /\ time \in { Unbound, None } \cup { Str(s) : s \in TimeStrings }

(***************************************************************************)
(* Properties of the poll loop.                                            *)
(***************************************************************************)
\* The iteration polled a date and the comparison of line 140 had operands.
Polled == iterDate.tag = "str" /\ Truthy(iterDate) /\ iterBaseline.tag = "str"
PolledLater == Polled /\ StrGT(iterDate.s, iterBaseline.s)
PolledNotLater == Polled /\ ~StrGT(iterDate.s, iterBaseline.s)

\* C1: in an iteration where check_available_date returned a date strictly
\* later (string order) than current_booked_date, current_booked_date keeps
\* its value and neither check_available_time nor book_appointment is called.
C1_LaterDateChangesNothing ==
    PolledLater =>
        /\ current_booked_date = iterBaseline
        /\ iterTimeArg = None
        /\ iterBookArgs = None
        /\ pc \notin { "checktime", "book" }

\* An iteration with a later date has run to its end.
C1_Witness ==
    /\ PolledLater
    /\ pc = "except"
    /\ excAt = "sleep"
    /\ current_booked_date = Str(IsoDate(2024, 6, 1))
    /\ iterDate = Str(IsoDate(2024, 7, 1))

\* C2: in an iteration where check_available_date returned a date earlier
\* than or equal to current_booked_date, current_booked_date is set to that
\* date and check_available_time is called with it, also when the two dates
\* are equal.
C2_NotLaterDateIsTakenAndTimed ==
    (PolledNotLater /\ pc # "compare") =>
        /\ current_booked_date = iterDate
        /\ IF pc = "checktime" THEN date = iterDate ELSE iterTimeArg = iterDate

\* The equal case: the time check was called with the date already held.
C2_Witness ==
    /\ PolledNotLater
    /\ iterDate = iterBaseline
    /\ iterTimeArg = iterDate
    /\ lastOp = "check_available_time"

\* C3: book_appointment is called in an iteration only after
\* check_available_time was called in it and returned a time, and with the
\* date of the iteration and that time; when check_available_time returns
\* nothing, book_appointment is not called.
C3_BookOnlyWithReturnedTime ==
    /\ (pc = "book" \/ iterBookArgs # None) =>
          /\ iterTimeArg = iterDate
          /\ Truthy(iterTimeRet)
    /\ iterBookArgs # None =>
          iterBookArgs = [date |-> iterDate, time |-> iterTimeRet]
    /\ (iterTimeArg # None /\ ~Truthy(iterTimeRet)) =>
          (pc # "book" /\ iterBookArgs = None)

\* A booking was sent with the polled date and the returned time.
C3_Witness ==
    /\ iterDate = Str(IsoDate(2024, 5, 15))
    /\ iterTimeRet = Str(HourMin(10, 30))
    /\ iterBookArgs = [date |-> iterDate, time |-> iterTimeRet]
    /\ lastBooking = iterBookArgs
    /\ pc = "sleep"

\* C4: over an execution of run(), restarts included, the values taken by
\* current_booked_date never increase in string order.
C4_BaselineNeverIncreases ==
    [][(current_booked_date.tag = "str" /\ current_booked_date'.tag = "str")
           => ~StrGT(current_booked_date'.s, current_booked_date.s)]_vars

\* The date was advanced and a restart has carried it into a new frame.
C4_Witness ==
    /\ depth = 2
    /\ pc = "login"
    /\ current_booked_date = Str(IsoDate(2024, 5, 15))
    /\ argv[2] = IsoDate(2024, 6, 1)

(***************************************************************************)
(* Properties of the restart.                                              *)
(***************************************************************************)
RemoteOps ==
    { "login", "check_available_date", "check_available_time", "book_appointment" }

\* C5: whenever an exception is raised during a poll iteration, the next
\* thing run() does is to authenticate again and resume with the value
\* current_booked_date had when the exception was raised.
C5_ExceptionRestartsWithSameDate ==
    [][/\ pc = "except" =>
            (pc' = "run" /\ current_booked_date' = current_booked_date)
       /\ (pc = "run" /\ depth > 1) =>
            (pc' = "login" /\ current_booked_date' = current_booked_date)]_vars

\* C6: once run() has started with a non-empty date the process does not end
\* by itself, however many exceptions have been caught.
C6_NeverTerminates ==
    (depth >= 1 /\ Len(argv[2]) > 0) => pc \notin { "exited", "returned", "crashed" }

\* C7: login is performed only at startup and after a failure of a remote
\* operation; an iteration in which none of them raised is followed by the
\* sleep and the next poll on the same session.
C7_LoginOnlyAfterFailure ==
    /\ (pc = "login" /\ depth > 1) => excAt \in RemoteOps
    /\ pc = "except" => excAt # "sleep"

\* C8: current_booked_date is the date given at startup or the date of the
\* most recent booking sent by book_appointment.
C8_BaselineIsHeldDate ==
    current_booked_date.tag = "str" =>
        \/ current_booked_date = Str(argv[2])
        \/ (lastBooking # None /\ current_booked_date = lastBooking.date)

(***************************************************************************)
(* Properties of the booking decision.                                     *)
(***************************************************************************)
\* The time of the appointment held on the date the iteration compared with
\* is known: the previous booking was made for that date.
HeldTimeKnown == prevBooking # None /\ prevBooking.date = iterBaseline

\* C9 as stated: book_appointment is called only for a date strictly earlier
\* than current_booked_date, or for the same date with a time better than
\* the one held.
C9_BookOnlyEarlierOrBetterTime ==
    iterBookArgs # None =>
        \/ StrGT(iterBaseline.s, iterBookArgs.date.s)
        \/ /\ iterBookArgs.date = iterBaseline
           /\ HeldTimeKnown => StrGT(prevBooking.time.s, iterBookArgs.time.s)

\* C9 as the code has it: book_appointment is called only for a date earlier
\* than or equal to current_booked_date and with a non-empty time; times are
\* not compared.
C9_BookOnlyNotLaterWithTime ==
    iterBookArgs # None =>
        /\ ~StrGT(iterBookArgs.date.s, iterBaseline.s)
        /\ Truthy(iterBookArgs.time)

\* The slot already booked is booked again, same date and same time.
C9_Witness ==
    /\ iterBookArgs # None
    /\ iterBookArgs.date = iterBaseline
    /\ prevBooking = iterBookArgs
    /\ lastBooking = iterBookArgs

(***************************************************************************)
(* check_available_time applied to every modelled body, and the comparison *)
(* of run() applied to pairs of zero-padded dates.                         *)
(***************************************************************************)
\* Zero-padded "YYYY-MM-DD" texts; the years, months and days include
\* values whose unpadded texts would differ in length.
PaddedDates ==
    { IsoDate(y, m, d) : y \in { 999, 2023, 2024 }, m \in { 1, 9, 10, 12 },
                         d \in { 2, 10, 31 } }
DatePairs == [date : { Str(s) : s \in PaddedDates }, booked : { Str(s) : s \in PaddedDates }]

InitFn ==
    /\ \/ /\ pc = "fn_time"
          /\ fnInput \in TimeBodies
       \/ /\ pc = "fn_branch"
          /\ fnInput \in DatePairs
    /\ fnOutput = None
    /\ argv = << ProgName >>
    /\ current_booked_date = Unbound
    /\ date = Unbound
    /\ time = Unbound
    /\ depth = 0
    /\ exc = "none"
    /\ excAt = "none"
    /\ lastOp = "none"
    /\ iterBaseline = None
    /\ iterDate = Unbound
    /\ iterTimeArg = None
    /\ iterTimeRet = Unbound
    /\ iterBookArgs = None
    /\ lastBooking = None
    /\ prevBooking = None
    /\ posts = {}
    /\ gets = {}
    /\ slept = FALSE
    /\ exitCode = -1
    /\ data = None
    /\ excMsg = EmptyStr
    /\ page = None
    /\ opPost = None
    /\ usagePrinted = FALSE
    /\ sleptSinceLogin = FALSE

\* Lines 88-94 applied to the decoded body.
ApplyCheckAvailableTime ==
    /\ pc = "fn_time"
    /\ pc' = "fn_time_done"
    /\ fnOutput' = CheckAvailableTimeResult(fnInput)
    /\ UNCHANGED << argv, current_booked_date, locals, depth, exc, excMsg, excAt,
                    lastOp, iter, bookings, posts, gets, slept, exitCode,
                    fnInput,
                    data, page, opPost, usagePrinted, sleptSinceLogin >>

\* Lines 138-142 applied to a polled date and a booked date.
ApplyBranch ==
    /\ pc = "fn_branch"
    /\ pc' = "fn_branch_done"
    /\ fnOutput' = Branch(fnInput.date, fnInput.booked)
    /\ UNCHANGED << argv, current_booked_date, locals, depth, exc, excMsg,
                    excAt, lastOp, iter, bookings, posts, gets, slept,
                    exitCode, fnInput, data, page, opPost, usagePrinted,
                    sleptSinceLogin >>

NextFn ==
    \/ ApplyCheckAvailableTime
    \/ ApplyBranch

SpecFn == InitFn /\ [][NextFn]_vars

\* A body without error whose business_times is present and not empty.
HasBusinessTimes ==
    /\ pc = "fn_time_done"
    /\ ~fnInput.error
    /\ fnInput.business_times.present
    /\ Len(fnInput.business_times.items) > 0

\* C10 as stated: for every body without error whose business_times is
\* present and not empty, check_available_time returns its first element,
\* whatever available_times is.
C10_FirstBusinessTime ==
    HasBusinessTimes => fnOutput = Return(fnInput.business_times.items[1])

\* C10 as the code has it: the first element of business_times is returned
\* when it is a non-empty string.
C10_FirstNonEmptyBusinessTime ==
    (HasBusinessTimes /\ Truthy(fnInput.business_times.items[1])) =>
        fnOutput = Return(fnInput.business_times.items[1])

\* business_times wins over a non-empty available_times with another time.
C10_Witness ==
    /\ HasBusinessTimes
    /\ fnInput.business_times.items = << Str(HourMin(10, 30)) >>
    /\ fnInput.available_times = Present(<< Str(HourMin(9, 0)) >>)
    /\ fnOutput = Return(Str(HourMin(10, 30)))

\* A body without error whose business_times is absent or an empty list.
NoBusinessTimes ==
    /\ pc = "fn_time_done"
    /\ ~fnInput.error
    /\ Len(fnInput.business_times.items) = 0

\* C11: for every body without error whose business_times is absent or an
\* empty list, check_available_time returns the first element of
\* available_times when that list is not empty, and returns None, without
\* raising, when available_times is absent or an empty list.
C11_FallBackToAvailableTimes ==
    NoBusinessTimes =>
        fnOutput = IF Len(fnInput.available_times.items) > 0
                   THEN Return(fnInput.available_times.items[1])
                   ELSE Return(None)

(***************************************************************************)
(* Properties of check_available_date inside run().                        *)
(***************************************************************************)
\* C12: check_available_date returns the date of the first element of a
\* non-empty array and None for an empty array; for an object with an error
\* field it raises an exception carrying that message, which run() handles
\* as a failure: no time check and no booking follow in that iteration.
C12_FirstDateOrNoneOrError ==
    [][/\ pc = "poll_data" =>
            IF data.error
            THEN /\ pc' = "except"
                 /\ excAt' = "check_available_date"
                 /\ excMsg' = data.message
                 /\ iterTimeArg' = None
                 /\ iterBookArgs' = None
            ELSE /\ pc' = "compare"
                 /\ date' = IF Len(data.items) > 0 THEN data.items[1].date ELSE None
       /\ (pc = "except" /\ excAt = "check_available_date") =>
            /\ pc' \in { "run", "crashed" }
            /\ iterTimeArg' = None
            /\ iterBookArgs' = None
            /\ posts' = posts
            /\ gets' = gets]_vars

\* The handler holds the message of the error body.
C12_Witness ==
    /\ pc = "except"
    /\ excAt = "check_available_date"
    /\ exc = "Exception"
    /\ excMsg = << 101, 50 >>
    /\ iterTimeArg = None
    /\ iterBookArgs = None

(***************************************************************************)
(* Properties of the two form submissions.                                 *)
(***************************************************************************)
\* The page fetched by the last login or book_appointment has no csrf-token
\* meta tag, or the tag has no content attribute.
PageLacksToken ==
    /\ lastOp \in { "login", "book_appointment" }
    /\ page # None
    /\ page.meta \in { "absent", "nocontent" }

\* C13: when the page fetched by login() or book_appointment() has no
\* csrf-token meta tag, or the tag has no content attribute, the operation
\* raises before its POST; no POST goes out without a token read from a page.
C13_NoTokenNoPost ==
    /\ PageLacksToken =>
          /\ opPost = None
          /\ excAt = lastOp
          /\ pc \in { "except", "run", "login", "crashed" }
          /\ pc = "except" => exc \in { "TypeError", "KeyError" }
    /\ opPost # None =>
          /\ page # None
          /\ page.meta = "ok"
          /\ opPost.token = Str(page.content)

\* book_appointment has failed on a page without the tag, before any POST.
C13_Witness ==
    /\ PageLacksToken
    /\ lastOp = "book_appointment"
    /\ page.meta = "absent"
    /\ pc = "except"
    /\ exc = "TypeError"
    /\ posts = { "sign_in" }

\* C16: the response to the POST of login() and of book_appointment() is
\* not inspected: whatever the server answered to a POST that the transport
\* delivered, polling starts after login, and after book_appointment the
\* booking stands, current_booked_date is kept and the iteration goes on to
\* its end.
C16_PostResponseNotInspected ==
    (opPost # None /\ opPost.response \in PostResponses) =>
        /\ lastOp = "login" => pc = "poll"
        /\ lastOp = "book_appointment" =>
              /\ lastBooking = iterBookArgs
              /\ current_booked_date = iterBookArgs.date
              /\ pc \in { "sleep", "except", "run", "login", "crashed" }
              /\ pc = "except" => excAt = "sleep"

\* A rejected sign-in was followed by a rejected booking that stands.
C16_Witness ==
    /\ lastOp = "book_appointment"
    /\ opPost # None
    /\ opPost.response = "rejected"
    /\ posts = { "sign_in", "appointment" }
    /\ lastBooking = iterBookArgs
    /\ current_booked_date = lastBooking.date
    /\ pc = "sleep"

(***************************************************************************)
(* Properties of the start of the process.                                 *)
(***************************************************************************)
\* C14: with any number of positional arguments other than one, main()
\* prints the usage line and exits with a non-zero status; no request is
\* made and run() is never entered.
C14_WrongArityExits ==
    (Len(argv) # 2 /\ pc # "main") =>
        /\ pc = "exited"
        /\ usagePrinted
        /\ exitCode > 0
        /\ gets = {}
        /\ posts = {}
        /\ lastOp = "none"
        /\ depth = 0

\* Two positional arguments were given.
C14_Witness ==
    /\ Len(argv) = 3
    /\ pc = "exited"
    /\ usagePrinted

\* C15: run() called with an empty date returns without logging in, without
\* any request and without a restart; and a restart never calls run() with
\* an empty date.
C15_EmptyDateReturns ==
    /\ (depth >= 1 /\ Len(argv[2]) = 0 /\ pc # "run") =>
          /\ pc = "returned"
          /\ depth = 1
          /\ gets = {}
          /\ posts = {}
          /\ lastOp = "none"
    /\ depth > 1 => Truthy(current_booked_date)
    /\ pc = "returned" => depth = 1

\* run("") has returned.
C15_Witness ==
    /\ pc = "returned"
    /\ Len(argv) = 2
    /\ argv[2] = EmptyStr
    /\ exitCode = 0

(***************************************************************************)
(* Properties of the restart cycle.                                        *)
(***************************************************************************)
\* C17: between two consecutive login attempts of run() the poller sleeps
\* for the polling interval at least once.
C17_SleepBetweenLogins ==
    (pc = "login" /\ depth > 1) => sleptSinceLogin

\* C18: book_appointment is never called with a date later (string order)
\* than the date given to run() at startup.
C18_NeverBookLaterThanStart ==
    /\ pc = "book" => ~StrGT(date.s, argv[2])
    /\ iterBookArgs # None => ~StrGT(iterBookArgs.date.s, argv[2])
    /\ lastBooking # None => ~StrGT(lastBooking.date.s, argv[2])

\* A booking made after two restarts, for a date before the startup date.
C18_Witness ==
    /\ depth = 3
    /\ iterBookArgs # None
    /\ lastBooking = iterBookArgs
    /\ StrGT(argv[2], lastBooking.date.s)
    /\ prevBooking # None

(***************************************************************************)
(* The string order against the calendar.                                  *)
(***************************************************************************)
\* The number written by a sequence of decimal digits.
RECURSIVE DigitsValue(_)
DigitsValue(ds) ==
    IF Len(ds) = 0 THEN 0
    ELSE 10 * DigitsValue(SubSeq(ds, 1, Len(ds) - 1)) + (ds[Len(ds)] - 48)

\* Year, month and day read from a "YYYY-MM-DD" text.
YearOf(s) == DigitsValue(SubSeq(s, 1, 4))
MonthOf(s) == DigitsValue(SubSeq(s, 6, 7))
DayOf(s) == DigitsValue(SubSeq(s, 9, 10))

\* Calendar order of two such texts.
ChronoLater(a, b) ==
    \/ YearOf(a) > YearOf(b)
    \/ YearOf(a) = YearOf(b) /\ MonthOf(a) > MonthOf(b)
    \/ YearOf(a) = YearOf(b) /\ MonthOf(a) = MonthOf(b) /\ DayOf(a) > DayOf(b)

\* C19: for a polled date and a booked date that are both zero-padded
\* YYYY-MM-DD texts, run() takes the "not an improvement" branch exactly
\* when the polled date is later in the calendar than the booked date.
C19_StringOrderIsCalendarOrder ==
    pc = "fn_branch_done" =>
        (fnOutput = "later" <=> ChronoLater(fnInput.date.s, fnInput.booked.s))

\* October against September: the months differ in their first digit.
C19_Witness ==
    /\ pc = "fn_branch_done"
    /\ fnInput.date = Str(IsoDate(2024, 10, 2))
    /\ fnInput.booked = Str(IsoDate(2024, 9, 31))
    /\ fnOutput = "later"

====
